---- MODULE Spec2Model ----
(***************************************************************************)
(* Lab1 (Fibonacci benchmarks) and Lab2 (sorting benchmarks):              *)
(* the algorithms as operators, the explicit-stack loop of fib_memoized,   *)
(* the measurement loop of Lab2 over its pre-generated arrays, and the     *)
(* benchmark harness (main, time_run, write_csv, write_table, plot_single, *)
(* plot_comparison) as state machines.                                     *)
(***************************************************************************)
EXTENDS Integers, Sequences, FiniteSets, TLC

\* ------------------------------------------------------------------ bounds
\* Largest n the Fibonacci implementations are applied to.
MaxN == 20
\* Longest list, and largest element, the sorting algorithms are applied to.
MaxLen == 4
MaxVal == 2
\* How many of INPUT_SIZES (a prefix of the list) a modelled run measures.
NumSizes == 2
\* Largest element of a pre-generated array of the Lab2 measurement loop.
ArrMaxVal == 1
\* Highest reading of time.perf_counter(), in ticks, a modelled run reaches.
MaxClock == 3

\* --------------------------------------------------------------- constants
REPEATS == 3

VARIABLES
    \* Lab1 algorithms applied to one n
    fN, fAlg, fResult,
    \* fib_memoized's loop
    mN, memo, stack, mpc, mResult,
    \* Lab2 algorithms applied to one list
    sInput, sAlg, sOutput,
    \* Lab2 measurement loop over the pre-generated arrays
    heap, generated, aAlg, aSize, aRep, apc,
    \* the harness
    lab, pc, dirs, files, now, ai, si, rep, best, durations, rows,
    all_results, trace

fibVars == <<fN, fAlg, fResult>>
memoVars == <<mN, memo, stack, mpc, mResult>>
sortVars == <<sInput, sAlg, sOutput>>
arrVars == <<heap, generated, aAlg, aSize, aRep, apc>>
mainVars == <<lab, pc, dirs, files, now, ai, si, rep, best, durations, rows,
              all_results, trace>>
vars == <<fibVars, memoVars, sortVars, arrVars, mainVars>>

\* The parts of the state a specification does not use stay at these values.
FibIdle == fN = 0 /\ fAlg = "idle" /\ fResult = 0
MemoIdle == mN = 0 /\ memo = <<>> /\ stack = <<>> /\ mpc = "idle" /\ mResult = 0
SortIdle == sInput = <<>> /\ sAlg = "idle" /\ sOutput = <<>>
ArrIdle ==
    /\ heap = <<>> /\ generated = <<>>
    /\ aAlg = 0 /\ aSize = 0 /\ aRep = 0 /\ apc = "idle"
MainIdle ==
    /\ lab = "idle" /\ pc = "idle" /\ dirs = {} /\ files = <<>> /\ now = 0
    /\ ai = 0 /\ si = 0 /\ rep = 0 /\ best = <<>> /\ durations = <<>>
    /\ rows = <<>> /\ all_results = <<>> /\ trace = <<>>

\* ================================================================== Lab1
\* fib_iterative: n rounds of a, b = b, a + b from (0, 1); returns a.
RECURSIVE IterativeLoop(_, _, _)
IterativeLoop(a, b, left) ==
    IF left = 0 THEN a ELSE IterativeLoop(b, a + b, left - 1)

fib_iterative(n) == IterativeLoop(0, 1, n)

\* The loop body without stack.append(k): an unresolved k is dropped.
MemoStepNoPushBack(m, st) ==
    LET k == st[Len(st)]
        rest == SubSeq(st, 1, Len(st) - 1)
        k1 == k - 1
        k2 == k - 2
    IN  IF k \in DOMAIN m THEN [memo |-> m, stack |-> rest]
        ELSE IF k1 \in DOMAIN m /\ k2 \in DOMAIN m
             THEN [memo |-> m @@ (k :> (m[k1] + m[k2])), stack |-> rest]
             ELSE [memo |-> m,
                   stack |-> rest
                             \o (IF k1 \notin DOMAIN m THEN <<k1>> ELSE <<>>)
                             \o (IF k2 \notin DOMAIN m THEN <<k2>> ELSE <<>>)]

\* One iteration of fib_memoized's while loop on (memo, stack): pop k; skip it
\* when known; store it when both predecessors are known; otherwise push it
\* back, followed by each predecessor that is not known yet.
MemoStep(m, st) ==
    LET k == st[Len(st)]
        rest == SubSeq(st, 1, Len(st) - 1)
        k1 == k - 1
        k2 == k - 2
    IN  IF k \in DOMAIN m THEN [memo |-> m, stack |-> rest]
        ELSE IF k1 \in DOMAIN m /\ k2 \in DOMAIN m
             THEN [memo |-> m @@ (k :> (m[k1] + m[k2])), stack |-> rest]
             ELSE [memo |-> m,
                   stack |-> rest \o <<k>>
                             \o (IF k1 \notin DOMAIN m THEN <<k1>> ELSE <<>>)
                             \o (IF k2 \notin DOMAIN m THEN <<k2>> ELSE <<>>)]

\* memo = {0: 0, 1: 1}
MemoInitial == (0 :> 0) @@ (1 :> 1)

RECURSIVE MemoLoop(_, _)
MemoLoop(m, st) ==
    IF st = <<>> THEN m
    ELSE LET s == MemoStep(m, st) IN MemoLoop(s.memo, s.stack)

fib_memoized(n) ==
    IF n < 2 THEN n ELSE MemoLoop(MemoInitial, <<n>>)[n]

\* fib_fast_doubling's solve(k): the pair (F(k), F(k+1)).
RECURSIVE solve(_)
solve(k) ==
    IF k = 0 THEN <<0, 1>>
    ELSE LET p == solve(k \div 2)
             a == p[1]
             b == p[2]
             c == a * (2 * b - a)
             d == a * a + b * b
         IN  IF k % 2 = 0 THEN <<c, d>> ELSE <<d, c + d>>

fib_fast_doubling(n) == solve(n)[1]

\* fib_binomial's loop over k = 0 .. max_k, carrying (term, total).
RECURSIVE BinomialLoop(_, _, _, _, _)
BinomialLoop(n, max_k, k, term, total) ==
    IF k > max_k THEN total
    ELSE LET numerator == (n - 2 * k - 1) * (n - 2 * k - 2)
             denominator == (k + 1) * (n - k - 1)
             term2 == IF k < max_k THEN (term * numerator) \div denominator
                      ELSE term
         IN  BinomialLoop(n, max_k, k + 1, term2, total + term)

fib_binomial(n) ==
    IF n = 0 THEN 0 ELSE BinomialLoop(n, (n - 1) \div 2, 0, 1, 0)

\* 2x2 matrices as <<<<a, b>>, <<c, d>>>>.
mat_mul(a, b) ==
    << <<a[1][1] * b[1][1] + a[1][2] * b[2][1],
         a[1][1] * b[1][2] + a[1][2] * b[2][2]>>,
       <<a[2][1] * b[1][1] + a[2][2] * b[2][1],
         a[2][1] * b[1][2] + a[2][2] * b[2][2]>> >>

RECURSIVE MatPowLoop(_, _, _)
MatPowLoop(result, base, p) ==
    IF p > 0
    THEN MatPowLoop(IF p % 2 = 1 THEN mat_mul(result, base) ELSE result,
                    mat_mul(base, base), p \div 2)
    ELSE result

mat_pow(p) == MatPowLoop(<< <<1, 0>>, <<0, 1>> >>, << <<1, 1>>, <<1, 0>> >>, p)

\* The variant returning the diagonal entry [0][0] of the power.
fib_matrix_fastDiagonal(n) == IF n = 0 THEN 0 ELSE mat_pow(n)[1][1]

fib_matrix_fast(n) == IF n = 0 THEN 0 ELSE mat_pow(n)[1][2]

\* ALGORITHMS of Lab1, in registry order.
Lab1Keys == <<"iterative", "memoized", "fast_doubling", "binomial", "matrix_fast">>

\* ---- the five implementations applied to one n
FibInit ==
    /\ fN \in 0..MaxN /\ fAlg = "none" /\ fResult = 0
    /\ MemoIdle /\ SortIdle /\ ArrIdle /\ MainIdle

CallIterative ==
    /\ fAlg = "none"
    /\ fAlg' = "iterative" /\ fResult' = fib_iterative(fN)
    /\ UNCHANGED <<fN, memoVars, sortVars, arrVars, mainVars>>

CallMemoized ==
    /\ fAlg = "none"
    /\ fAlg' = "memoized" /\ fResult' = fib_memoized(fN)
    /\ UNCHANGED <<fN, memoVars, sortVars, arrVars, mainVars>>

CallFastDoubling ==
    /\ fAlg = "none"
    /\ fAlg' = "fast_doubling" /\ fResult' = fib_fast_doubling(fN)
    /\ UNCHANGED <<fN, memoVars, sortVars, arrVars, mainVars>>

CallBinomial ==
    /\ fAlg = "none"
    /\ fAlg' = "binomial" /\ fResult' = fib_binomial(fN)
    /\ UNCHANGED <<fN, memoVars, sortVars, arrVars, mainVars>>

CallMatrixFast ==
    /\ fAlg = "none"
    /\ fAlg' = "matrix_fast" /\ fResult' = fib_matrix_fast(fN)
    /\ UNCHANGED <<fN, memoVars, sortVars, arrVars, mainVars>>

FibNext ==
    \/ CallIterative
    \/ CallMemoized
    \/ CallFastDoubling
    \/ CallBinomial
    \/ CallMatrixFast

SpecFib == FibInit /\ [][FibNext]_vars

\* ---- fib_memoized, one loop iteration at a time
MemoInit ==
    /\ mN \in 0..MaxN /\ memo = <<>> /\ stack = <<>> /\ mpc = "entry"
    /\ mResult = 0
    /\ FibIdle /\ SortIdle /\ ArrIdle /\ MainIdle

\* if n < 2: return n
MemoReturnSmall ==
    /\ mpc = "entry" /\ mN < 2
    /\ mpc' = "returned" /\ mResult' = mN
    /\ UNCHANGED <<mN, memo, stack, fibVars, sortVars, arrVars, mainVars>>

\* memo = {0: 0, 1: 1}; stack = [n]
MemoSetup ==
    /\ mpc = "entry" /\ mN >= 2
    /\ memo' = MemoInitial /\ stack' = <<mN>> /\ mpc' = "loop"
    /\ UNCHANGED <<mN, mResult, fibVars, sortVars, arrVars, mainVars>>

\* while stack: one iteration
MemoIterate ==
    /\ mpc = "loop" /\ stack # <<>>
    /\ LET s == MemoStep(memo, stack)
       IN  memo' = s.memo /\ stack' = s.stack
    /\ UNCHANGED <<mN, mpc, mResult, fibVars, sortVars, arrVars, mainVars>>

\* the loop's condition fails
MemoExit ==
    /\ mpc = "loop" /\ stack = <<>>
    /\ mpc' = "exited"
    /\ UNCHANGED <<mN, memo, stack, mResult, fibVars, sortVars, arrVars, mainVars>>

\* return memo[n]  (a KeyError when n has no entry)
MemoReturn ==
    /\ mpc = "exited"
    /\ IF mN \in DOMAIN memo
       THEN mpc' = "returned" /\ mResult' = memo[mN]
       ELSE mpc' = "raised" /\ mResult' = mResult
    /\ UNCHANGED <<mN, memo, stack, fibVars, sortVars, arrVars, mainVars>>

MemoNext ==
    \/ MemoReturnSmall
    \/ MemoSetup
    \/ MemoIterate
    \/ MemoExit
    \/ MemoReturn

\* The interpreter runs the next statement: the loop never pauses by itself.
SpecMemo == MemoInit /\ [][MemoNext]_vars /\ WF_vars(MemoNext)

\* ================================================================== Lab2
\* quicksort: a list of length <= 1 is returned as it is; otherwise the
\* elements below, equal to and above the middle element, the outer two sorted.
RECURSIVE quicksort(_)
quicksort(arr) ==
    IF Len(arr) <= 1 THEN arr
    ELSE LET pivot == arr[(Len(arr) \div 2) + 1]
             left == SelectSeq(arr, LAMBDA x : x < pivot)
             middle == SelectSeq(arr, LAMBDA x : x = pivot)
             right == SelectSeq(arr, LAMBDA x : x > pivot)
         IN  quicksort(left) \o middle \o quicksort(right)

\* _merge's while loop, i and j counting the elements already taken, then the
\* two extend calls.
RECURSIVE MergeLoop(_, _, _, _, _)
MergeLoop(left, right, i, j, result) ==
    IF i < Len(left) /\ j < Len(right)
    THEN IF left[i + 1] <= right[j + 1]
         THEN MergeLoop(left, right, i + 1, j, Append(result, left[i + 1]))
         ELSE MergeLoop(left, right, i, j + 1, Append(result, right[j + 1]))
    ELSE result \o SubSeq(left, i + 1, Len(left))
                \o SubSeq(right, j + 1, Len(right))

merge(left, right) == MergeLoop(left, right, 0, 0, <<>>)

RECURSIVE merge_sort(_)
merge_sort(arr) ==
    IF Len(arr) <= 1 THEN arr
    ELSE LET mid == Len(arr) \div 2
         IN  merge(merge_sort(SubSeq(arr, 1, mid)),
                   merge_sort(SubSeq(arr, mid + 1, Len(arr))))

\* The variant arr[i] = arr[j]; arr[j] = arr[i], one assignment after the other.
SwapSequential(arr, i, j) == [arr EXCEPT ![i + 1] = arr[j + 1]]

\* arr[i], arr[j] = arr[j], arr[i], with the source's indices (from 0).
Swap(arr, i, j) == [arr EXCEPT ![i + 1] = arr[j + 1], ![j + 1] = arr[i + 1]]

\* _heapify(arr, n, i): the list after sifting arr[i] down within arr[0:n].
RECURSIVE heapify(_, _, _)
heapify(arr, n, i) ==
    LET left == 2 * i + 1
        right == 2 * i + 2
        l1 == IF left < n /\ arr[left + 1] > arr[i + 1] THEN left ELSE i
        largest == IF right < n /\ arr[right + 1] > arr[l1 + 1] THEN right ELSE l1
    IN  IF largest = i THEN arr
        ELSE heapify(Swap(arr, i, largest), n, largest)

\* for i in range(n // 2 - 1, -1, -1): _heapify(arr, n, i)
RECURSIVE BuildHeapLoop(_, _, _)
BuildHeapLoop(arr, n, i) ==
    IF i < 0 THEN arr ELSE BuildHeapLoop(heapify(arr, n, i), n, i - 1)

\* for i in range(n - 1, 0, -1): swap arr[0] and arr[i]; _heapify(arr, i, 0)
RECURSIVE ExtractLoop(_, _)
ExtractLoop(arr, i) ==
    IF i <= 0 THEN arr ELSE ExtractLoop(heapify(Swap(arr, 0, i), i, 0), i - 1)

\* What heapsort does to the list it works on.
HeapsortInPlace(arr) ==
    LET n == Len(arr)
    IN  ExtractLoop(BuildHeapLoop(arr, n, (n \div 2) - 1), n - 1)

\* shell_sort's inner while loop: shift the elements above temp up by gap,
\* then store temp at j.
RECURSIVE ShiftLoop(_, _, _, _)
ShiftLoop(arr, gap, j, temp) ==
    IF j >= gap /\ arr[j - gap + 1] > temp
    THEN ShiftLoop([arr EXCEPT ![j + 1] = arr[j - gap + 1]], gap, j - gap, temp)
    ELSE [arr EXCEPT ![j + 1] = temp]

\* for i in range(gap, n)
RECURSIVE InsertLoop(_, _, _)
InsertLoop(arr, gap, i) ==
    IF i >= Len(arr) THEN arr
    ELSE InsertLoop(ShiftLoop(arr, gap, i, arr[i + 1]), gap, i + 1)

\* while gap > 0
RECURSIVE GapLoop(_, _)
GapLoop(arr, gap) ==
    IF gap > 0 THEN GapLoop(InsertLoop(arr, gap, gap), gap \div 2) ELSE arr

\* What shell_sort does to the list it works on.
ShellSortInPlace(arr) == GapLoop(arr, Len(arr) \div 2)

\* ---- lists as objects: h is the sequence of the live list objects, a
\* reference is an index into it.
\* The variant without the slice: another name for the same list object.
CopyListAliased(h, r) == [heap |-> h, ref |-> r]

\* arr[:] : a new list object with the same elements.
CopyList(h, r) == [heap |-> Append(h, h[r]), ref |-> Len(h) + 1]

\* fn(data) for each algorithm: the objects after the call and the object the
\* call returns.
CallQuicksort(h, r) ==
    IF Len(h[r]) <= 1 THEN [heap |-> h, ref |-> r]
    ELSE [heap |-> Append(h, quicksort(h[r])), ref |-> Len(h) + 1]

CallMergeSort(h, r) ==
    IF Len(h[r]) <= 1 THEN [heap |-> h, ref |-> r]
    ELSE [heap |-> Append(h, merge_sort(h[r])), ref |-> Len(h) + 1]

CallHeapsort(h, r) ==
    LET c == CopyList(h, r)
    IN  [heap |-> [c.heap EXCEPT ![c.ref] = HeapsortInPlace(c.heap[c.ref])],
         ref |-> c.ref]

CallShellSort(h, r) ==
    LET c == CopyList(h, r)
    IN  [heap |-> [c.heap EXCEPT ![c.ref] = ShellSortInPlace(c.heap[c.ref])],
         ref |-> c.ref]

\* The list heapsort / shell_sort return for a list with the elements arr.
heapsort(arr) == LET c == CallHeapsort(<<arr>>, 1) IN c.heap[c.ref]

shell_sort(arr) == LET c == CallShellSort(<<arr>>, 1) IN c.heap[c.ref]

\* ALGORITHMS of Lab2, in registry order.
Lab2Keys == <<"quicksort", "mergesort", "heapsort", "shellsort">>

Lab2Call(key, h, r) ==
    CASE key = "quicksort" -> CallQuicksort(h, r)
      [] key = "mergesort" -> CallMergeSort(h, r)
      [] key = "heapsort" -> CallHeapsort(h, r)
      [] key = "shellsort" -> CallShellSort(h, r)

\* ---- the four algorithms applied to one list
ListsUpTo(len, max) == UNION {[1..k -> 0..max] : k \in 0..len}

SortInit ==
    /\ sInput \in ListsUpTo(MaxLen, MaxVal) /\ sAlg = "none" /\ sOutput = <<>>
    /\ FibIdle /\ MemoIdle /\ ArrIdle /\ MainIdle

SortQuicksort ==
    /\ sAlg = "none"
    /\ sAlg' = "quicksort" /\ sOutput' = quicksort(sInput)
    /\ UNCHANGED <<sInput, fibVars, memoVars, arrVars, mainVars>>

SortMergeSort ==
    /\ sAlg = "none"
    /\ sAlg' = "mergesort" /\ sOutput' = merge_sort(sInput)
    /\ UNCHANGED <<sInput, fibVars, memoVars, arrVars, mainVars>>

SortHeapsort ==
    /\ sAlg = "none"
    /\ sAlg' = "heapsort" /\ sOutput' = heapsort(sInput)
    /\ UNCHANGED <<sInput, fibVars, memoVars, arrVars, mainVars>>

SortShellSort ==
    /\ sAlg = "none"
    /\ sAlg' = "shellsort" /\ sOutput' = shell_sort(sInput)
    /\ UNCHANGED <<sInput, fibVars, memoVars, arrVars, mainVars>>

SortNext ==
    \/ SortQuicksort
    \/ SortMergeSort
    \/ SortHeapsort
    \/ SortShellSort

SpecSort == SortInit /\ [][SortNext]_vars

\* ---- main's measurement loop of Lab2 over the pre-generated arrays.  The
\* i-th modelled input size is i, and the elements are drawn from
\* 0..ArrMaxVal in place of random.randint(0, 10 * n).
ArraySize(i) == i

ArrInit ==
    /\ heap = <<>> /\ generated = <<>>
    /\ aAlg = 0 /\ aSize = 0 /\ aRep = 0 /\ apc = "generate"
    /\ FibIdle /\ MemoIdle /\ SortIdle /\ MainIdle

\* arrays = {n: generate_random_array(n) for n in INPUT_SIZES}: arrays[n] is
\* object number i for the i-th size.
ArrGenerate ==
    /\ apc = "generate"
    /\ heap' \in [1..NumSizes -> ListsUpTo(ArraySize(NumSizes), ArrMaxVal)]
    /\ \A i \in 1..NumSizes : Len(heap'[i]) = ArraySize(i)
    /\ generated' = heap'
    /\ aAlg' = 1 /\ aSize' = 1 /\ aRep' = 0 /\ apc' = "time_run"
    /\ UNCHANGED <<fibVars, memoVars, sortVars, mainVars>>

\* One round of time_run's loop: data = arr[:]; fn(data).  The lists made in
\* the round are dropped at its end; the arrays stay.
ArrTrial ==
    /\ apc = "time_run" /\ aRep < REPEATS
    /\ LET data == CopyList(heap, aSize)
           after == Lab2Call(Lab2Keys[aAlg], data.heap, data.ref)
       IN  heap' = SubSeq(after.heap, 1, NumSizes)
    /\ aRep' = aRep + 1
    /\ UNCHANGED <<generated, aAlg, aSize, apc, fibVars, memoVars, sortVars,
                   mainVars>>

\* time_run returns; the next n of INPUT_SIZES
ArrNextSize ==
    /\ apc = "time_run" /\ aRep = REPEATS /\ aSize < NumSizes
    /\ aSize' = aSize + 1 /\ aRep' = 0
    /\ UNCHANGED <<heap, generated, aAlg, apc, fibVars, memoVars, sortVars,
                   mainVars>>

\* the next entry of ALGORITHMS, or the end of the loop
ArrNextAlgorithm ==
    /\ apc = "time_run" /\ aRep = REPEATS /\ aSize = NumSizes
    /\ IF aAlg < Len(Lab2Keys)
       THEN aAlg' = aAlg + 1 /\ aSize' = 1 /\ aRep' = 0 /\ apc' = apc
       ELSE apc' = "done" /\ UNCHANGED <<aAlg, aSize, aRep>>
    /\ UNCHANGED <<heap, generated, fibVars, memoVars, sortVars, mainVars>>

ArrNext ==
    \/ ArrGenerate
    \/ ArrTrial
    \/ ArrNextSize
    \/ ArrNextAlgorithm

SpecArrays == ArrInit /\ [][ArrNext]_vars

\* =============================================================== harness
\* INPUT_SIZES = SMALL_INPUTS + LARGE_INPUTS of each lab.
Lab1Sizes ==
    <<5, 7, 10, 12, 15, 17, 20, 22, 25, 27, 30, 32, 35, 37, 40, 42, 45,
      501, 631, 794, 1000, 1259, 1585, 1995, 2512, 3162, 3981, 5012, 6310,
      7943, 10000, 12589, 15849>>

Lab2Sizes ==
    <<100, 500, 1000, 2000, 5000, 10000, 20000, 30000, 50000, 75000, 100000>>

\* The sizes a modelled run measures: the first NumSizes of the lab's list.
INPUT_SIZES(l) ==
    SubSeq(IF l = "Lab1" THEN Lab1Sizes ELSE Lab2Sizes, 1, NumSizes)

\* The display titles of ALGORITHMS, in registry order.
Lab1Titles ==
    <<"Iterative Linear", "Memoized Recursion", "Fast Doubling", "Binomial Sum",
      "Fast Matrix Exponentiation">>

Lab2Titles == <<"QuickSort", "MergeSort", "HeapSort", "ShellSort">>

Keys(l) == IF l = "Lab1" THEN Lab1Keys ELSE Lab2Keys

Titles(l) == IF l = "Lab1" THEN Lab1Titles ELSE Lab2Titles

\* best = None
None == <<>>

\* The variant with the comparison turned round (elapsed > best).
UpdateBestKeepsLargest(b, elapsed) ==
    IF b = None \/ elapsed > b[1] THEN <<elapsed>> ELSE b

\* if best is None or elapsed < best: best = elapsed
UpdateBest(b, elapsed) ==
    IF b = None \/ elapsed < b[1] THEN <<elapsed>> ELSE b

\* The variant rows.insert(0, (n, elapsed)).
AppendRowInFront(rs, n, elapsed) == <<(<<n, elapsed>>)>> \o rs

\* rows.append((n, elapsed))
AppendRow(rs, n, elapsed) == Append(rs, <<n, elapsed>>)

\* ---- what the writers put into a file, as the sequence of its lines.  A
\* duration is a whole number of ticks of one microsecond, below ten.
\* csv.writer writes a float by repr and None as the empty field.
FloatRepr(t) ==
    IF t = None THEN ""
    ELSE IF t[1] = 0 THEN "0.0" ELSE ToString(t[1]) \o "e-06"

\* f"{t:.6f}"
FloatFixed6(t) == "0.00000" \o ToString(t[1])

\* writer.writerow(["n", "time_s"]); writer.writerows(rows)
CsvLines(rs) ==
    <<"n,time_s">>
    \o [i \in 1..Len(rs) |-> ToString(rs[i][1]) \o "," \o FloatRepr(rs[i][2])]

\* name.replace("_", " ").title()
Caption(name) ==
    CASE name = "iterative" -> "Iterative"
      [] name = "memoized" -> "Memoized"
      [] name = "fast_doubling" -> "Fast Doubling"
      [] name = "binomial" -> "Binomial"
      [] name = "matrix_fast" -> "Matrix Fast"
      [] name = "quicksort" -> "Quicksort"
      [] name = "mergesort" -> "Mergesort"
      [] name = "heapsort" -> "Heapsort"
      [] name = "shellsort" -> "Shellsort"

\* the handle.write calls of write_table
TableLines(name, rs) ==
    <<"\\begin{table}[H]", "\\centering",
      "\\caption{" \o Caption(name) \o " Results}",
      "\\begin{tabular}{rr}", "\\toprule", "n & time (s)\\\\", "\\midrule">>
    \o [i \in 1..Len(rs) |->
            ToString(rs[i][1]) \o " & " \o FloatFixed6(rs[i][2]) \o "\\\\"]
    \o <<"\\bottomrule", "\\end{tabular}", "\\end{table}">>

\* plt.plot(ns, ts, marker="o", label=...): one series of a chart
Series(label, rs) ==
    <<"plot " \o label>>
    \o [i \in 1..Len(rs) |->
            "(" \o ToString(rs[i][1]) \o ", " \o FloatRepr(rs[i][2]) \o ")"]

\* the chart plot_single saves
SingleChart(l, title, rs) ==
    Series("", rs)
    \o <<"title " \o title,
         "xlabel " \o (IF l = "Lab1" THEN "n" ELSE "n (array size)"),
         "ylabel Time (s)">>

RECURSIVE AllSeries(_, _)
AllSeries(results, i) ==
    IF i > Len(results) THEN <<>>
    ELSE Series(results[i][2], results[i][3]) \o AllSeries(results, i + 1)

\* the chart plot_comparison saves
ComparisonChart(l, results) ==
    AllSeries(results, 1)
    \o (IF l = "Lab1"
        THEN <<"yscale log", "title Fibonacci Algorithm Comparison",
               "xlabel n", "ylabel Time (s, log scale)">>
        ELSE <<"title Sorting Algorithm Comparison",
               "xlabel n (array size)", "ylabel Time (s)">>)

\* ---- the output files
CsvPath(name) == "results/" \o name \o ".csv"
TablePath(name) == "results/" \o name \o "_table.tex"
ChartPath(name) == "figures/" \o name \o ".png"
ComparisonPath == "figures/comparison.png"

OutputPaths(name) == {CsvPath(name), TablePath(name), ChartPath(name)}

Paths(l) ==
    UNION {OutputPaths(Keys(l)[a]) : a \in 1..Len(Keys(l))} \cup {ComparisonPath}

NoFile == [exists |-> FALSE, lines |-> <<>>]

\* The variant open(path, "a"): what is written follows what the file held.
WriteFileAppending(old, lines) == [exists |-> TRUE, lines |-> old.lines \o lines]

\* open(path, "w") and the writes up to the close: the file holds what was
\* written and nothing of what it held before.
WriteFile(old, lines) == [exists |-> TRUE, lines |-> lines]

\* What a write that raises can leave: the file as it was (open raised), or
\* truncated and holding some of the lines (a write raised).
FailedWrite(old, lines) ==
    {old} \cup {[exists |-> TRUE, lines |-> SubSeq(lines, 1, k)] :
                    k \in 0..(Len(lines) - 1)}

\* ---- what a run finds on disk: nothing, or the output of an earlier
\* complete run whose every duration was below one tick.
EarlierRows(l) == [i \in 1..NumSizes |-> <<INPUT_SIZES(l)[i], <<0>>>>]

EarlierResults(l) ==
    [a \in 1..Len(Keys(l)) |-> <<Keys(l)[a], Titles(l)[a], EarlierRows(l)>>]

EarlierFiles(l) ==
    [p \in Paths(l) |->
        IF p = ComparisonPath
        THEN WriteFile(NoFile, ComparisonChart(l, EarlierResults(l)))
        ELSE LET a == CHOOSE b \in 1..Len(Keys(l)) : p \in OutputPaths(Keys(l)[b])
                 name == Keys(l)[a]
             IN  IF p = CsvPath(name)
                 THEN WriteFile(NoFile, CsvLines(EarlierRows(l)))
                 ELSE IF p = TablePath(name)
                 THEN WriteFile(NoFile, TableLines(name, EarlierRows(l)))
                 ELSE WriteFile(NoFile, SingleChart(l, Titles(l)[a], EarlierRows(l)))]

\* ---- the statements of main, and the one main runs after each.
\* The variant with the three writer calls indented into the loop over the sizes.
FlowWritesInsideSizeLoop(after) ==
    CASE after = "ensure_dirs" -> "for_alg"
      [] after = "next_alg" -> "for_size"
      [] after = "next_size" -> "time_run"
      [] after = "append_row" -> "write_csv"
      [] after = "sizes_exhausted" -> "for_alg"
      [] after = "write_csv" -> "write_table"
      [] after = "write_table" -> "plot_single"
      [] after = "plot_single" -> "for_size"
      [] after = "algs_exhausted" -> "plot_comparison"
      [] after = "plot_comparison" -> "done"

\* The variant with plot_comparison indented into the loop over the algorithms.
FlowComparisonInsideAlgorithmLoop(after) ==
    CASE after = "ensure_dirs" -> "for_alg"
      [] after = "next_alg" -> "for_size"
      [] after = "next_size" -> "time_run"
      [] after = "append_row" -> "for_size"
      [] after = "sizes_exhausted" -> "write_csv"
      [] after = "write_csv" -> "write_table"
      [] after = "write_table" -> "plot_single"
      [] after = "plot_single" -> "plot_comparison"
      [] after = "algs_exhausted" -> "done"
      [] after = "plot_comparison" -> "for_alg"

\* main's order: ensure_dirs; for key ...: for n ...: time_run, rows.append;
\* write_csv; write_table; plot_single, all_results.append; plot_comparison.
Flow(after) ==
    CASE after = "ensure_dirs" -> "for_alg"
      [] after = "next_alg" -> "for_size"
      [] after = "next_size" -> "time_run"
      [] after = "append_row" -> "for_size"
      [] after = "sizes_exhausted" -> "write_csv"
      [] after = "write_csv" -> "write_table"
      [] after = "write_table" -> "plot_single"
      [] after = "plot_single" -> "for_alg"
      [] after = "algs_exhausted" -> "plot_comparison"
      [] after = "plot_comparison" -> "done"

\* The variant with the exception caught and ignored: the run goes on.
RaiseSwallowed(stmt) ==
    IF stmt = "time_run" THEN "time_run" ELSE Flow(stmt)

\* An exception raised in statement stmt: nothing catches it, the process ends.
Raise(stmt) == "aborted"

\* ---- the record of what the run did, in order
Event(op, name, n, path) == [op |-> op, key |-> name, n |-> n, path |-> path]

Key == Keys(lab)[ai]
Title == Titles(lab)[ai]
Size == INPUT_SIZES(lab)[si]

MainInit ==
    /\ lab \in {"Lab1", "Lab2"}
    /\ pc = "ensure_dirs"
    /\ \/ dirs = {} /\ files = [p \in Paths(lab) |-> NoFile]
       \/ dirs = {"results", "figures"} /\ files = EarlierFiles(lab)
    /\ now = 0
    /\ ai = 0 /\ si = 0 /\ rep = 0 /\ best = None /\ durations = <<>>
    /\ rows = <<>> /\ all_results = <<>> /\ trace = <<>>
    /\ FibIdle /\ MemoIdle /\ SortIdle /\ ArrIdle

\* ensure_dirs(); all_results = []  (Lab2 seeds the generator before and
\* generates the arrays after; their contents are the subject of SpecArrays,
\* and Lab2's print calls write to no file.)
EnsureDirs ==
    /\ pc = "ensure_dirs"
    /\ dirs' = dirs \cup {"results", "figures"}
    /\ all_results' = <<>>
    /\ trace' = Append(trace, Event("mkdir", "", 0, ""))
    /\ pc' = Flow("ensure_dirs")
    /\ UNCHANGED <<lab, files, now, ai, si, rep, best, durations, rows>>
    /\ UNCHANGED <<fibVars, memoVars, sortVars, arrVars>>

\* os.makedirs raises
EnsureDirsRaises ==
    /\ pc = "ensure_dirs"
    /\ trace' = Append(trace, Event("raise", "", 0, ""))
    /\ pc' = Raise("ensure_dirs")
    /\ UNCHANGED <<lab, dirs, files, now, ai, si, rep, best, durations, rows,
                   all_results>>
    /\ UNCHANGED <<fibVars, memoVars, sortVars, arrVars>>

\* for key, (title, fn) in ALGORITHMS.items(): rows = []
ForAlgorithm ==
    /\ pc = "for_alg"
    /\ IF ai < Len(Keys(lab))
       THEN ai' = ai + 1 /\ rows' = <<>> /\ si' = 0 /\ pc' = Flow("next_alg")
       ELSE pc' = Flow("algs_exhausted") /\ UNCHANGED <<ai, rows, si>>
    /\ UNCHANGED <<lab, dirs, files, now, rep, best, durations, all_results,
                   trace>>
    /\ UNCHANGED <<fibVars, memoVars, sortVars, arrVars>>

\* for n in INPUT_SIZES: time_run is entered (best = None)
ForSize ==
    /\ pc = "for_size"
    /\ IF si < Len(INPUT_SIZES(lab))
       THEN /\ si' = si + 1 /\ best' = None /\ rep' = 0 /\ durations' = <<>>
            /\ pc' = Flow("next_size")
       ELSE pc' = Flow("sizes_exhausted") /\ UNCHANGED <<si, best, rep, durations>>
    /\ UNCHANGED <<lab, dirs, files, now, ai, rows, all_results, trace>>
    /\ UNCHANGED <<fibVars, memoVars, sortVars, arrVars>>

\* One round of time_run's loop: the clock is read, fn is called, the clock is
\* read again (not going backwards), best is updated.
Trial ==
    /\ pc = "time_run" /\ rep < REPEATS
    /\ \E tick \in 0..(MaxClock - now) :
          LET start == now
              elapsed == (now + tick) - start
          IN  /\ now' = now + tick
              /\ best' = UpdateBest(best, elapsed)
              /\ durations' = Append(durations, elapsed)
    /\ rep' = rep + 1
    /\ trace' = Append(trace, Event("call", Key, Size, ""))
    /\ UNCHANGED <<lab, pc, dirs, files, ai, si, rows, all_results>>
    /\ UNCHANGED <<fibVars, memoVars, sortVars, arrVars>>

\* fn raises inside time_run
TrialRaises ==
    /\ pc = "time_run" /\ rep < REPEATS
    /\ trace' = trace \o <<Event("call", Key, Size, ""), Event("raise", Key, Size, "")>>
    /\ pc' = Raise("time_run")
    /\ UNCHANGED <<lab, dirs, files, now, ai, si, rep, best, durations, rows,
                   all_results>>
    /\ UNCHANGED <<fibVars, memoVars, sortVars, arrVars>>

\* return best; rows.append((n, elapsed))
TimeRunReturn ==
    /\ pc = "time_run" /\ rep = REPEATS
    /\ rows' = AppendRow(rows, Size, best)
    /\ pc' = Flow("append_row")
    /\ UNCHANGED <<lab, dirs, files, now, ai, si, rep, best, durations,
                   all_results, trace>>
    /\ UNCHANGED <<fibVars, memoVars, sortVars, arrVars>>

\* A writer statement stmt that writes lines to path and returns.
Writes(stmt, path, lines) ==
    /\ pc = stmt
    /\ files' = [files EXCEPT ![path] = WriteFile(files[path], lines)]
    /\ trace' = Append(trace, Event("write", IF stmt = "plot_comparison" THEN "" ELSE Key, 0, path))
    /\ pc' = Flow(stmt)

\* A writer statement stmt that raises while writing lines to path.
WriteRaises(stmt, path, lines) ==
    /\ pc = stmt
    /\ \E f \in FailedWrite(files[path], lines) :
          files' = [files EXCEPT ![path] = f]
    /\ trace' = Append(trace, Event("raise", IF stmt = "plot_comparison" THEN "" ELSE Key, 0, path))
    /\ pc' = Raise(stmt)

\* write_csv(key, rows)
WriteCsv ==
    /\ Writes("write_csv", CsvPath(Key), CsvLines(rows))
    /\ UNCHANGED <<lab, dirs, now, ai, si, rep, best, durations, rows, all_results>>
    /\ UNCHANGED <<fibVars, memoVars, sortVars, arrVars>>

WriteCsvRaises ==
    /\ WriteRaises("write_csv", CsvPath(Key), CsvLines(rows))
    /\ UNCHANGED <<lab, dirs, now, ai, si, rep, best, durations, rows, all_results>>
    /\ UNCHANGED <<fibVars, memoVars, sortVars, arrVars>>

\* write_table(key, rows)
WriteTable ==
    /\ Writes("write_table", TablePath(Key), TableLines(Key, rows))
    /\ UNCHANGED <<lab, dirs, now, ai, si, rep, best, durations, rows, all_results>>
    /\ UNCHANGED <<fibVars, memoVars, sortVars, arrVars>>

WriteTableRaises ==
    /\ WriteRaises("write_table", TablePath(Key), TableLines(Key, rows))
    /\ UNCHANGED <<lab, dirs, now, ai, si, rep, best, durations, rows, all_results>>
    /\ UNCHANGED <<fibVars, memoVars, sortVars, arrVars>>

\* plot_single(key, title, rows); all_results.append((key, title, rows))
PlotSingle ==
    /\ Writes("plot_single", ChartPath(Key), SingleChart(lab, Title, rows))
    /\ all_results' = Append(all_results, <<Key, Title, rows>>)
    /\ UNCHANGED <<lab, dirs, now, ai, si, rep, best, durations, rows>>
    /\ UNCHANGED <<fibVars, memoVars, sortVars, arrVars>>

PlotSingleRaises ==
    /\ WriteRaises("plot_single", ChartPath(Key), SingleChart(lab, Title, rows))
    /\ UNCHANGED <<lab, dirs, now, ai, si, rep, best, durations, rows, all_results>>
    /\ UNCHANGED <<fibVars, memoVars, sortVars, arrVars>>

\* plot_comparison(all_results)
PlotComparison ==
    /\ Writes("plot_comparison", ComparisonPath, ComparisonChart(lab, all_results))
    /\ UNCHANGED <<lab, dirs, now, ai, si, rep, best, durations, rows, all_results>>
    /\ UNCHANGED <<fibVars, memoVars, sortVars, arrVars>>

PlotComparisonRaises ==
    /\ WriteRaises("plot_comparison", ComparisonPath, ComparisonChart(lab, all_results))
    /\ UNCHANGED <<lab, dirs, now, ai, si, rep, best, durations, rows, all_results>>
    /\ UNCHANGED <<fibVars, memoVars, sortVars, arrVars>>

Next ==
    \/ EnsureDirs
    \/ EnsureDirsRaises
    \/ ForAlgorithm
    \/ ForSize
    \/ Trial
    \/ TrialRaises
    \/ TimeRunReturn
    \/ WriteCsv
    \/ WriteCsvRaises
    \/ WriteTable
    \/ WriteTableRaises
    \/ PlotSingle
    \/ PlotSingleRaises
    \/ PlotComparison
    \/ PlotComparisonRaises

Spec == MainInit /\ [][Next]_vars

\* ================================================================ claims
IsNonDecreasing(seq) == \A i \in 1..(Len(seq) - 1) : seq[i] <= seq[i + 1]

Count(seq, v) == Cardinality({i \in 1..Len(seq) : seq[i] = v})

IsPermutation(a, b) ==
    /\ Len(a) = Len(b)
    /\ \A i \in 1..Len(b) : Count(a, b[i]) = Count(b, b[i])

\* The n-th Fibonacci number by its defining recurrence.
RECURSIVE Fibonacci(_)
Fibonacci(n) == IF n < 2 THEN n ELSE Fibonacci(n - 1) + Fibonacci(n - 2)

\* C1: whichever of quicksort, merge_sort, heapsort and shell_sort was applied
\* to a list, the list it returned is non-decreasing and holds the same
\* elements, each as often, as the input.
C1_SortedPermutation ==
    sAlg \in {"quicksort", "mergesort", "heapsort", "shellsort"}
        => IsNonDecreasing(sOutput) /\ IsPermutation(sOutput, sInput)

\* C1's case: shell_sort has sorted an unsorted list with a repeated element.
C1_Witness ==
    /\ sAlg = "shellsort"
    /\ Len(sInput) >= 3
    /\ ~IsNonDecreasing(sInput)
    /\ \E i, j \in 1..Len(sInput) : i # j /\ sInput[i] = sInput[j]
    /\ IsNonDecreasing(sOutput)

\* C2: whichever of the five Fibonacci implementations was applied to n, it
\* returned the n-th Fibonacci number; 5 for n = 5 and 55 for n = 10.
C2_FibAgree ==
    fAlg \in {"iterative", "memoized", "fast_doubling", "binomial", "matrix_fast"}
        => /\ fResult = Fibonacci(fN)
           /\ fN = 5 => fResult = 5
           /\ fN = 10 => fResult = 55

\* C2's case: the binomial sum has returned 55 for n = 10.
C2_Witness == fAlg = "binomial" /\ fN = 10 /\ fResult = 55

\* C5: once generated, the array of every input size keeps the contents it was
\* generated with, through every trial of every algorithm.
C5_ArraysUnchanged ==
    apc \in {"time_run", "done"}
        => \A i \in 1..NumSizes : heap[i] = generated[i]

\* C5's case: all algorithms have run all their trials, heapsort and
\* shell_sort among them, on an array that was generated unsorted.
C5_Witness ==
    /\ apc = "done" /\ aAlg = Len(Lab2Keys) /\ aRep = REPEATS
    /\ \E i \in 1..NumSizes : ~IsNonDecreasing(generated[i])

\* C10: fib_memoized's loop ends for every n, and when it has ended memo holds
\* an entry for n.
C10_MemoTerminates ==
    /\ <>(mpc \in {"returned", "raised"})
    /\ [](mpc = "exited" => stack = <<>> /\ mN \in DOMAIN memo)

\* C10's case: the loop has ended for an n whose predecessors had to be pushed.
C10_Witness ==
    /\ mpc = "exited" /\ mN >= 4 /\ stack = <<>>
    /\ DOMAIN memo = 0..mN

\* ---- the harness
Indices(op) == {i \in 1..Len(trace) : trace[i].op = op}

CallsBefore(j, name, n) ==
    Cardinality({i \in Indices("call") : i < j /\ trace[i].key = name /\ trace[i].n = n})

SetMin(S) == CHOOSE x \in S : \A y \in S : x <= y
SetMax(S) == CHOOSE x \in S : \A y \in S : x >= y

SeqMin(seq) == SetMin({seq[i] : i \in 1..Len(seq)})

WrittenPaths == {trace[i].path : i \in Indices("write")}

\* The three files of the a-th entry of all_results hold one export of its rows.
ExportedOnce(a) ==
    LET name == all_results[a][1]
        title == all_results[a][2]
        rs == all_results[a][3]
    IN  /\ files[CsvPath(name)] = [exists |-> TRUE, lines |-> CsvLines(rs)]
        /\ files[TablePath(name)] = [exists |-> TRUE, lines |-> TableLines(name, rs)]
        /\ files[ChartPath(name)] = [exists |-> TRUE, lines |-> SingleChart(lab, title, rs)]

\* C3: when the loop over the algorithms has ended, all_results holds one
\* entry per registered algorithm, in registry order, and every entry's rows
\* hold one (size, time) pair per input size, in the order of INPUT_SIZES.
C3_ResultsShape ==
    pc \in {"plot_comparison", "done"}
        => /\ Len(all_results) = Len(Keys(lab))
           /\ \A a \in 1..Len(all_results) :
                 /\ all_results[a][1] = Keys(lab)[a]
                 /\ Len(all_results[a][3]) = Len(INPUT_SIZES(lab))
                 /\ \A s \in 1..Len(INPUT_SIZES(lab)) :
                       /\ all_results[a][3][s][1] = INPUT_SIZES(lab)[s]
                       /\ Len(all_results[a][3][s]) = 2

\* C3's case: a Lab1 run has ended with its five entries.
C3_Witness ==
    /\ pc = "done" /\ lab = "Lab1" /\ Len(all_results) = 5
    /\ Len(all_results[5][3]) >= 2

\* C4: when time_run returns it has called the algorithm exactly 3 times and
\* returns the least of the three durations, a number that is not negative
\* and never None; no time_run calls the algorithm more often.
C4_TimeRunMinimum ==
    /\ REPEATS = 3
    /\ pc = "time_run" /\ rep = REPEATS
          => /\ Len(durations) = 3
             /\ CallsBefore(Len(trace) + 1, Key, Size) = 3
             /\ best # None
             /\ best[1] = SeqMin(durations)
             /\ best[1] >= 0
    /\ \A s \in 1..Len(rows) : rows[s][2] # None /\ rows[s][2][1] >= 0
    /\ \A i \in Indices("call") :
          CallsBefore(Len(trace) + 1, trace[i].key, trace[i].n) <= 3

\* C4's case: the three durations differ and the least is neither the first
\* nor the last.
C4_Witness ==
    /\ pc = "time_run" /\ rep = REPEATS
    /\ durations = <<1, 0, 2>>
    /\ best = <<0>>

\* C6: every output file write_csv or write_table has written holds exactly
\* one export of the rows, whatever it held before the run.
C6_ExportOverwrites ==
    /\ \A a \in 1..Len(all_results) : ExportedOnce(a)
    /\ pc \in {"write_table", "plot_single"}
          => files[CsvPath(Key)] = [exists |-> TRUE, lines |-> CsvLines(rows)]
    /\ pc = "plot_single"
          => files[TablePath(Key)] = [exists |-> TRUE, lines |-> TableLines(Key, rows)]

\* C6's case: the files held an earlier run's export of the same rows, and
\* write_csv and write_table have exported them a second time.
C6_Witness ==
    /\ pc = "plot_single" /\ ai = 1
    /\ rows = EarlierRows(lab)
    /\ files[ChartPath(Key)] = EarlierFiles(lab)[ChartPath(Key)]
    /\ files[CsvPath(Key)] = EarlierFiles(lab)[CsvPath(Key)]
    /\ files[TablePath(Key)] = EarlierFiles(lab)[TablePath(Key)]

\* C7 as claimed: no file is written between the first and the last call of
\* an algorithm by time_run.
C7_NoWriteBetweenMeasures ==
    \A j \in Indices("write") :
        \/ Indices("call") = {}
        \/ j < SetMin(Indices("call"))
        \/ j > SetMax(Indices("call"))

KeyCalls(name) == {i \in Indices("call") : trace[i].key = name}

\* C7 as amended: no file is written between the first and the last call of
\* any one algorithm by time_run; the directories are made before the first
\* call of all.
C7_NoWriteWithinAlgorithm ==
    /\ \A j \in Indices("write") : \A a \in 1..Len(Keys(lab)) :
          LET calls == KeyCalls(Keys(lab)[a])
          IN  calls = {} \/ j < SetMin(calls) \/ j > SetMax(calls)
    /\ \A j \in Indices("mkdir") : \A i \in Indices("call") : j < i

\* C7's case: the run is over and files were written between the calls of
\* different algorithms.
C7_Witness ==
    /\ pc = "done"
    /\ \E j \in Indices("write") :
          j > SetMin(Indices("call")) /\ j < SetMax(Indices("call"))

\* C8: an algorithm's CSV, table and chart are written only after time_run
\* has measured it at every input size; the comparison chart is written at
\* most once, once in a run that ends, and only after the three outputs of
\* every registered algorithm.
C8_WriteOrder ==
    /\ \A j \in Indices("write") :
          trace[j].path # ComparisonPath
              => \A s \in 1..Len(INPUT_SIZES(lab)) :
                    CallsBefore(j, trace[j].key, INPUT_SIZES(lab)[s]) = REPEATS
    /\ \A j \in Indices("write") :
          trace[j].path = ComparisonPath
              => /\ \A i \in Indices("write") : trace[i].path = ComparisonPath => i = j
                 /\ \A p \in Paths(lab) \ {ComparisonPath} :
                       \E i \in Indices("write") : i < j /\ trace[i].path = p
    /\ pc = "done" => ComparisonPath \in WrittenPaths

\* C8's case: a Lab2 run has ended, the comparison chart written last.
C8_Witness ==
    /\ pc = "done" /\ lab = "Lab2"
    /\ trace[Len(trace)].op = "write" /\ trace[Len(trace)].path = ComparisonPath

\* The outputs of the algorithm named name that are written before the
\* statement writing path is reached.
WrittenBefore(name, path) ==
    IF path = TablePath(name) THEN {CsvPath(name)}
    ELSE IF path = ChartPath(name) THEN {CsvPath(name), TablePath(name)}
    ELSE {}

\* C9: a failure is the last thing the run does: no call and no write
\* follows it, the outputs the failing algorithm had still to write and the
\* comparison chart are not written, and the files of the algorithms before
\* it hold what was written to them.
C9_FailStop ==
    /\ \A i \in Indices("raise") : i = Len(trace) /\ pc = "aborted"
    /\ pc = "aborted"
          => LET failure == trace[Len(trace)]
             IN  /\ failure.op = "raise"
                 /\ ComparisonPath \notin WrittenPaths
                 /\ failure.key # ""
                       => WrittenPaths \cap OutputPaths(failure.key)
                              = WrittenBefore(failure.key, failure.path)
                 /\ \A a \in (ai + 1)..Len(Keys(lab)) :
                       WrittenPaths \cap OutputPaths(Keys(lab)[a]) = {}
                 /\ \A a \in 1..Len(all_results) : ExportedOnce(a)

\* C9's case: write_table raised for the second algorithm, leaving part of
\* the table, after the first algorithm's files were written.
C9_Witness ==
    /\ pc = "aborted" /\ ai = 2 /\ Len(all_results) = 1
    /\ trace[Len(trace)].op = "raise"
    /\ trace[Len(trace)].path = TablePath(Key)
    /\ files[TablePath(Key)].exists
    /\ Len(files[TablePath(Key)].lines) = 2
    /\ CsvPath(Key) \in WrittenPaths

====
